---- MODULE Spec2Model ----
(***************************************************************************)
(* Dispatch-and-retry layer of the travel-assistant repository.           *)
(*                                                                         *)
(*   - the tenacity retry wrapper configured by aci/resource/_base.py      *)
(*     (retry_config) around FunctionsResource.search / execute;          *)
(*   - ACI.handle_function_call, which routes a function call to one of    *)
(*     those two resources;                                                *)
(*   - hotel_search_tool / flight_search_tool (tools.py and their copies   *)
(*     in app.py) and the POST /process endpoint of app.py;                *)
(*   - LinkedAccountsResource.link, under the same retry wrapper;          *)
(*   - ensure_llm_compatible_json_schema of aci/libs/_compatible_schema.py.*)
(*                                                                         *)
(* One behaviour of Spec is one dispatch: Init chooses the entry point     *)
(* and the caller's inputs, the environment (backend, search API, LLM)     *)
(* answers nondeterministically. One behaviour of ConcSpec is two          *)
(* dispatches in flight together, on the shared client and crew; one of    *)
(* CheckSpec is a series of calls of the required-field check on the same  *)
(* arguments; one of SchemaSpec is one call of the schema function.        *)
(***************************************************************************)
EXTENDS Integers, Sequences, FiniteSets, TLC

VARIABLES
    entry,               \* "aci" | "app" | "crew" | "link": which entry point is called
    function_name,       \* handle_function_call: argument function_name
    function_arguments,  \* handle_function_call: argument, rebound at line 133
    question,            \* process(): does the JSON body hold "question"
    candidate,           \* the four values the agent passes to the hotel tool
    task,                \* the task/tool the manager agent routed to
    missing,             \* hotel_search_tool: local list `missing`
    pc,                  \* control position of the dispatch
    branch,              \* handle_function_call: branch of the if/elif/else
    rpc,                 \* control position inside the tenacity loop
    attempt_number,      \* tenacity retry_state.attempt_number
    history,             \* error kind (or "ok") of every attempt made so far
    last,                \* outcome of the latest attempt
    sleeps,              \* the backoff waits slept so far, in order
    outbound,            \* the outbound requests issued so far, in order
    invoked,             \* the tools / resource methods called so far, in order
    call_outcome,        \* what the retry-wrapped call gave back to its caller
    result,              \* what the dispatch handed back to its caller
    api_key,             \* the API key the process environment holds, or None
    ran,                 \* the tasks the crew has started so far, in order
    http_status,         \* status code of the HTTP response, once it is sent
    response,            \* the backend's answer to the latest attempt
    cancelled,           \* has the caller of the dispatch given it up
    thr,                 \* concurrent dispatches: the state of each thread
    crew,                \* hierarchical_crew: the question each task holds
    overtook,            \* <<i, j>>: j took a step while i slept its backoff
    calls,               \* required-field check: what each call so far gave back
    flight_arguments,    \* the values the agent passes to the flight tool
    arguments_object,    \* the dict the caller passed as function_arguments, as it is now
    link_arguments,      \* linked_accounts.link: security_scheme and api_key passed
    schema               \* ensure_llm_compatible_json_schema: the dicts and the call stack

vars == <<entry, function_name, function_arguments, question, candidate, task,
          missing, pc, branch, rpc, attempt_number, history, last, sleeps,
          outbound, invoked, call_outcome, result, api_key, ran, http_status,
          response, cancelled, thr, crew, overtook, calls,
          flight_arguments, arguments_object, link_arguments, schema>>

----------------------------------------------------------------------------
(* Retry constants: aci/_constants.py                                      *)

DEFAULT_MAX_RETRIES == 3
DEFAULT_RETRY_MULTIPLIER == 1
DEFAULT_RETRY_MIN_WAIT == 1
DEFAULT_RETRY_MAX_WAIT == 10

----------------------------------------------------------------------------
(* Outcomes of a call: a returned value or a raised exception.             *)

None == "None"
NoOutcome == [tag |-> "none"]
Return(v) == [tag |-> "return", value |-> v]
Raise(k, m) == [tag |-> "raise", kind |-> k, msg |-> m]

Max(a, b) == IF a >= b THEN a ELSE b
Min(a, b) == IF a <= b THEN a ELSE b

RECURSIVE Pow2(_)
Pow2(n) == IF n <= 0 THEN 1 ELSE 2 * Pow2(n - 1)

----------------------------------------------------------------------------
(* aci/resource/_base.py                                                   *)

\* The HTTP statuses the backend answers with, and the bodies it sends.
Statuses == {200, 400, 401, 403, 404, 418, 429, 500}
ErrorBodies == {"b1", "b2", "nonjson"}
NetworkFailures == {"TimeoutException", "NetworkError"}

\* JSON documents a successful response carries; "None" is the JSON null.
Payloads ==
    { [success |-> TRUE, data |-> "d1"],
      [success |-> FALSE, error |-> "e1"],
      [success |-> TRUE, data |-> "d1", error |-> "e1"],
      [success |-> TRUE, data |-> "None"],
      [success |-> FALSE],
      [data |-> "d1"] }

\* httpx: Response.raise_for_status raises HTTPStatusError for 4xx and 5xx.
IsErrorStatus(status) == status >= 400 /\ status < 600

\* APIResource._get_error_message: the JSON body as a string, or str(error),
\* which names the status and not the body.
_get_error_message(status, body) ==
    IF body # "nonjson" THEN body ELSE "HTTPStatusError " \o ToString(status)

\* APIResource._handle_response
ServerErrorAbove500(status, body) ==
    IF ~IsErrorStatus(status)
    THEN Return(body)
    ELSE LET error_message == _get_error_message(status, body) IN
         IF status = 401 THEN Raise("AuthenticationError", error_message)
         ELSE IF status = 403 THEN Raise("PermissionError", error_message)
         ELSE IF status = 404 THEN Raise("NotFoundError", error_message)
         ELSE IF status = 400 THEN Raise("ValidationError", error_message)
         ELSE IF status = 429 THEN Raise("RateLimitError", error_message)
         ELSE IF 500 < status /\ status < 600
              THEN Raise("ServerError", error_message)
         ELSE Raise("UnknownError", error_message)
_handle_response(status, body) ==
    IF ~IsErrorStatus(status)
    THEN Return(body)
    ELSE LET error_message == _get_error_message(status, body) IN
         IF status = 401 THEN Raise("AuthenticationError", error_message)
         ELSE IF status = 403 THEN Raise("PermissionError", error_message)
         ELSE IF status = 404 THEN Raise("NotFoundError", error_message)
         ELSE IF status = 400 THEN Raise("ValidationError", error_message)
         ELSE IF status = 429 THEN Raise("RateLimitError", error_message)
         ELSE IF 500 <= status /\ status < 600
              THEN Raise("ServerError", error_message)
         ELSE Raise("UnknownError", error_message)

\* retry_config["retry"]: retry_if_exception_type((ServerError, RateLimitError,
\* UnknownError, httpx.TimeoutException, httpx.NetworkError))
RetryAnyException(kind) == TRUE
RetryServerErrorOnly(kind) == kind = "ServerError"
ShouldRetry(kind) ==
    kind \in {"ServerError", "RateLimitError", "UnknownError",
              "TimeoutException", "NetworkError"}

\* retry_config["stop"]: stop_after_attempt(DEFAULT_MAX_RETRIES)
ShouldStop(n) == n >= DEFAULT_MAX_RETRIES

\* retry_config["wait"]: wait_exponential(multiplier, min, max)
WaitUnclamped(n) == DEFAULT_RETRY_MULTIPLIER * Pow2(n - 1)
WaitBefore(n) ==
    Max(Max(0, DEFAULT_RETRY_MIN_WAIT),
        Min(DEFAULT_RETRY_MULTIPLIER * Pow2(n - 1), DEFAULT_RETRY_MAX_WAIT))

\* retry_config["reraise"] = True: on exhaustion the exception of the last
\* attempt is raised itself, not a tenacity.RetryError around it.
WrapInRetryError(outcome) == Raise("RetryError", outcome.msg)
Reraise(outcome) == outcome

----------------------------------------------------------------------------
(* aci/types/functions.py, aci/meta_functions, aci/_client.py              *)

ACI_SEARCH_FUNCTIONS == "ACI_SEARCH_FUNCTIONS"
ACI_EXECUTE_FUNCTION == "ACI_EXECUTE_FUNCTION"

\* The function names a caller (an LLM tool call) passes.
FunctionNames == {ACI_SEARCH_FUNCTIONS, ACI_EXECUTE_FUNCTION, "BRAVE_SEARCH__WEB_SEARCH"}

\* A JSON string where a JSON object is expected, marked so that it is told
\* apart from every dict an LLM writes.
JsonString(text) == [json_string |-> text]
IsDict(value) == DOMAIN value # {"json_string"}

\* The function_arguments dicts a caller passes; a dict is a function from
\* its keys to its values.
ArgVariants ==
    { [function_name |-> "GITHUB__STAR", function_arguments |-> [q |-> "x"]],
      [function_name |-> "GITHUB__STAR", q |-> "x"],
      [function_name |-> "GITHUB__STAR", function_arguments |-> [q |-> "x"],
       linked_account_owner_id |-> "evil"],
      [function_name |-> "GITHUB__STAR", linked_account_owner_id |-> "evil"],
      [function_name |-> "GITHUB__STAR", function_arguments |-> JsonString("x")],
      [function_arguments |-> [q |-> "x"]],
      [q |-> "x"],
      [intent |-> "x"],
      [intent |-> "x", allowed_apps_only |-> TRUE],
      [intent |-> "x", format |-> "anthropic"],
      <<>> }

\* The values the developer passes next to the LLM's arguments.
linked_account_owner_id == "owner1"
allowed_apps_only == FALSE
format == "openai"

\* ACIExecuteFunction.wrap_function_arguments_if_not_present
WrapKeepsFunctionName(obj) ==
    IF "function_arguments" \notin DOMAIN obj
    THEN IF "function_name" \notin DOMAIN obj
         THEN Raise("ValueError", "function_name is required")
         ELSE Return([function_name |-> obj.function_name,
                      function_arguments |-> obj])
    ELSE Return(obj)
wrap_function_arguments_if_not_present(obj) ==
    IF "function_arguments" \notin DOMAIN obj
    THEN IF "function_name" \notin DOMAIN obj
         THEN Raise("ValueError", "function_name is required")
         ELSE Return([function_name |-> obj.function_name,
                      function_arguments |->
                          [k \in DOMAIN obj \ {"function_name"} |-> obj[k]]])
    ELSE Return(obj)

\* wrap_function_arguments_if_not_present, lines 59-65: function_name is
\* popped from processed_obj, the copy made at line 60; the dict that was
\* passed in keeps all its keys.
InputAfterWrap(obj) == obj

\* The values an API key has in the process environment: unset, or set.
Keys == {None, "key"}

\* ACI.__init__, lines 54-58: the key is the argument or ACI_API_KEY of the
\* environment; without either the constructor raises.
ACI__init__(arg, env) ==
    LET key == IF arg = None THEN env ELSE arg IN
    IF key = None
    THEN Raise("APIKeyNotFound", "The API key is not found.")
    ELSE Return([api_key |-> key])

\* ACI.handle_function_call: the if / elif / else on function_name.
UnknownNameAsMetaExecute(name) ==
    IF name = ACI_SEARCH_FUNCTIONS THEN "search" ELSE "execute"
RouteOf(name) ==
    IF name = ACI_SEARCH_FUNCTIONS THEN "search"
    ELSE IF name = ACI_EXECUTE_FUNCTION THEN "execute"
    ELSE "direct"

\* The keyword arguments that reach the retry-wrapped resource method.
CallKwargs(br, name, args) ==
    IF br = "direct"
    THEN [function_name |-> name, function_arguments |-> args]
    ELSE args

\* Python raises TypeError where the call is written when a keyword is given
\* twice: **function_arguments next to an explicit keyword.
LaterKeywordWins(br, args) == FALSE
DuplicateKeyword(br, args) ==
    IF br = "search"
    THEN DOMAIN args \cap {"allowed_apps_only", "format"} # {}
    ELSE IF br = "execute"
    THEN "linked_account_owner_id" \in DOMAIN args
    ELSE FALSE

\* Inside the wrapper, the call of the method itself raises TypeError for
\* an unexpected keyword or a missing positional parameter.
SignatureMismatch(br, kwargs) ==
    IF br = "search"
    THEN ~(DOMAIN kwargs \subseteq {"app_names", "intent", "limit", "offset"})
    ELSE DOMAIN kwargs # {"function_name", "function_arguments"}

\* The outbound HTTP request of FunctionsResource.search / execute.
RequestOf(br, kwargs) ==
    IF br = "search"
    THEN [op |-> "search",
          params |-> [k \in DOMAIN kwargs \cup {"allowed_apps_only", "format"} |->
                        IF k = "allowed_apps_only" THEN ToString(allowed_apps_only)
                        ELSE IF k = "format" THEN format
                        ELSE kwargs[k]]]
    ELSE [op |-> "execute",
          function_name |-> kwargs.function_name,
          function_input |-> kwargs.function_arguments,
          linked_account_owner_id |-> linked_account_owner_id]

\* FunctionExecutionResult.model_validate: success is required, data and
\* error default to None.
model_validate(p) ==
    IF "success" \notin DOMAIN p
    THEN Raise("PydanticValidationError", "success: field required")
    ELSE Return([success |-> p.success,
                 data |-> IF "data" \in DOMAIN p THEN p.data ELSE None,
                 error |-> IF "error" \in DOMAIN p THEN p.error ELSE None])

\* FunctionExecutionResult.model_dump(exclude_none=True)
model_dump(r) ==
    [k \in {"success"} \cup {f \in {"data", "error"} : r[f] # None} |-> r[k]]

\* What one run of the wrapped method yields once the backend has answered
\* with `reply`: a network failure, or a status and a body.
MethodOutcome(br, reply) ==
    IF reply.net # None
    THEN Raise(reply.net, "")
    ELSE LET data == _handle_response(reply.status, reply.body) IN
         IF data.tag = "raise" \/ br = "search"
         THEN data
         ELSE model_validate(data.value)

\* No answer yet.
NoReply == [net |-> None, status |-> 0, body |-> None]

\* The answers the backend can give to one request.
Replies ==
    [net : NetworkFailures, status : {0}, body : {None}]
    \cup { [net |-> None, status |-> s, body |-> b] :
             s \in {x \in Statuses : IsErrorStatus(x)}, b \in ErrorBodies }
    \cup { [net |-> None, status |-> s, body |-> b] :
             s \in {x \in Statuses : ~IsErrorStatus(x)}, b \in Payloads }

----------------------------------------------------------------------------
(* tools.py and the copies of the two tools in app.py                      *)

\* Parameters of hotel_search_tool, in the order of its checks.
Required == <<"query", "check_in_date", "check_out_date", "adults">>

\* Python values an agent can pass for a parameter: None, "", [], 0, False,
\* "0" and an ordinary string; or it passes no argument for the parameter.
Values ==
    {"None", "EmptyStr", "EmptyList", "Int0", "False", "Str0", "Berlin", "Absent"}
Candidates == [{"query", "check_in_date", "check_out_date", "adults"} -> Values]
NoCandidate == [f \in {"query", "check_in_date", "check_out_date", "adults"} |-> "None"]

\* Python truth value of a value: `not v` is true of None, "", [], 0, False.
Truthy(v) == v \notin {"None", "EmptyStr", "EmptyList", "Int0", "False"}

\* ', '.join(names)
RECURSIVE Join(_)
Join(names) ==
    IF names = <<>> THEN ""
    ELSE IF Len(names) = 1 THEN names[1]
    ELSE names[1] \o ", " \o Join(Tail(names))

\* hotel_search_tool, lines 32-33: the four parameters have no default, so
\* Python raises TypeError at the call when no argument is passed for one.
BindArguments(c) ==
    IF \E f \in DOMAIN c : c[f] = "Absent"
    THEN Raise("TypeError", "missing required positional argument")
    ELSE Return(c)

\* hotel_search_tool, line 36: `missing = []` binds the local name to a new
\* list in every call, whatever an earlier call left.
KeptMissing(earlier) == earlier
FreshMissing(earlier) == <<>>

\* hotel_search_tool, lines 36-44: the four checks that fill `missing`.
MissingWithoutAdults(c) ==
    LET m1 == IF ~Truthy(c.query) THEN <<"query">> ELSE <<>>
        m2 == IF ~Truthy(c.check_in_date) THEN Append(m1, "check_in_date") ELSE m1
    IN  IF ~Truthy(c.check_out_date) THEN Append(m2, "check_out_date") ELSE m2
MissingOf(c) ==
    LET m1 == IF ~Truthy(c.query) THEN <<"query">> ELSE <<>>
        m2 == IF ~Truthy(c.check_in_date) THEN Append(m1, "check_in_date") ELSE m1
        m3 == IF ~Truthy(c.check_out_date) THEN Append(m2, "check_out_date") ELSE m2
    IN  IF ~Truthy(c.adults) THEN Append(m3, "adults") ELSE m3

\* hotel_search_tool, lines 45-46
MissingMessage(m) == "Missing information: " \o Join(m)

\* hotel_search_tool, lines 32-46: the call binds its arguments and runs the
\* required-field check; `earlier` is the list the call before it filled.
\* Without a missing field the function goes on to its else branch.
hotel_check(earlier, c) ==
    IF BindArguments(c).tag = "raise"
    THEN [missing |-> earlier, outcome |-> BindArguments(c)]
    ELSE LET m == FreshMissing(earlier) \o MissingOf(c) IN
         [missing |-> m,
          outcome |-> IF m # <<>> THEN Return(MissingMessage(m)) ELSE NoOutcome]

\* What GoogleSearch(params).get_dict() gives back for a hotel search: a
\* dict with or without "ads", whose entries hold the four keys or not; or
\* the HTTP client fails.
MaxAds == 2
Ad(i) ==
    [name |-> "hotel" \o ToString(i), overall_rating |-> "4." \o ToString(i),
     price |-> "$" \o ToString(100 + i), amenities |-> "Bar"]
SearchReplies ==
    { [fails |-> FALSE, results |-> [ads |-> [i \in 1..n |-> Ad(i)]]] : n \in 0..MaxAds }
    \cup
    { [fails |-> FALSE, results |-> [ads |-> <<Ad(1), [name |-> "hotel2"]>>]],
      [fails |-> FALSE, results |-> [error |-> "no results"]],
      [fails |-> TRUE, results |-> <<>>] }

\* Is the name `os` bound in the module that defines the tool: app.py
\* imports os, tools.py does not.
OsImported(module) == module = "app"

\* hotel_search_tool, lines 49-59 and 61: the search request.
HotelRequest(c, key) ==
    [op |-> "google_hotels", q |-> c.query, check_in_date |-> c.check_in_date,
     check_out_date |-> c.check_out_date, adults |-> c.adults, api_key |-> key]

\* hotel_search_tool, lines 62-65: the list built from results["ads"].
HotelDetails(reply) ==
    IF reply.fails THEN Raise("ConnectionError", "")
    ELSE IF "ads" \notin DOMAIN reply.results THEN Raise("KeyError", "ads")
    ELSE LET ads == reply.results.ads IN
         IF \E i \in 1..Len(ads) :
                ~({"name", "overall_rating", "price", "amenities"} \subseteq DOMAIN ads[i])
         THEN Raise("KeyError", "overall_rating")
         ELSE Return([i \in 1..Len(ads) |->
                        <<ads[i].name, ads[i].overall_rating, ads[i].price,
                          ads[i].amenities>>])

\* flight_search_tool, line 5: the values an agent passes for departure_id,
\* arrival_id, outbound_date and return_date.
FlightArgVariants ==
    { [departure_id |-> "PEK", arrival_id |-> "AUS",
       outbound_date |-> "2025-07-19", return_date |-> "2025-07-25"],
      [departure_id |-> "BER", arrival_id |-> "LIS",
       outbound_date |-> "2025-08-01", return_date |-> "2025-08-08"] }

\* The flight tool has not been called.
NoFlightArguments ==
    [departure_id |-> None, arrival_id |-> None, outbound_date |-> None,
     return_date |-> None]

\* flight_search_tool, lines 7-16 and 17: the search request.
FlightRequest ==
    [op |-> "google_flights", departure_id |-> "PEK", arrival_id |-> "AUS",
     outbound_date |-> "2025-07-19", return_date |-> "2025-07-25",
     api_key |-> "secret_api_key"]

\* flight_search_tool, lines 18-29: the loop reads the unbound name `j`.
FlightDetails(reply) ==
    IF reply.fails THEN Raise("ConnectionError", "")
    ELSE Raise("NameError", "name 'j' is not defined")

----------------------------------------------------------------------------
(* aci/resource/linked_accounts.py and the calls inside the retry wrapper   *)

\* SecurityScheme of aci/types/enums.py, and the api_key values a caller of
\* link passes: none, an empty string, a key.
SecuritySchemes == {"api_key", "no_auth", "oauth2"}
LinkArgVariants == [security_scheme : SecuritySchemes, api_key : {"None", "EmptyStr", "Berlin"}]
NoLinkArguments == [security_scheme |-> None, api_key |-> None]

\* FunctionsResource.execute, lines 118-122: FunctionExecutionParams wants a
\* dict for function_arguments; pydantic raises ValidationError otherwise.
ParamsInvalid(br, kwargs) ==
    br # "search" /\ ~IsDict(kwargs.function_arguments)

\* What the wrapped method raises before it sends a request, if anything:
\* link, lines 110-112, for API_KEY without a key; search and execute for
\* arguments that do not fit the signature or the parameter model.
PreRequestError(br, kwargs) ==
    IF br = "link"
    THEN IF kwargs.security_scheme = "api_key" /\ ~Truthy(kwargs.api_key)
         THEN Raise("ValueError",
                    "api_key parameter is required when security_scheme is API_KEY")
         ELSE NoOutcome
    ELSE IF SignatureMismatch(br, kwargs)
    THEN Raise("TypeError", "unexpected or missing argument")
    ELSE IF ParamsInvalid(br, kwargs)
    THEN Raise("PydanticValidationError", "function_arguments: dict expected")
    ELSE NoOutcome

\* link, lines 113-123, 128-137, 142-152: the request of each scheme.
LinkRequest(kwargs) ==
    IF kwargs.security_scheme = "api_key"
    THEN [op |-> "POST linked-accounts/api-key",
          json |-> [app_name |-> "GMAIL", linked_account_owner_id |-> linked_account_owner_id,
                    api_key |-> kwargs.api_key]]
    ELSE IF kwargs.security_scheme = "no_auth"
    THEN [op |-> "POST linked-accounts/no-auth",
          json |-> [app_name |-> "GMAIL", linked_account_owner_id |-> linked_account_owner_id]]
    ELSE [op |-> "GET linked-accounts/oauth2",
          params |-> [app_name |-> "GMAIL", linked_account_owner_id |-> linked_account_owner_id]]

\* JSON documents the backend answers a link request with: a linked account,
\* an authorization URL.
LinkPayloads ==
    { [id |-> "la1", app_name |-> "GMAIL"], [url |-> "https://auth.example/start"] }

\* link, lines 125, 139, 153-155: what the method makes of the answer.
LinkOutcome(kwargs, reply) ==
    IF reply.net # None
    THEN Raise(reply.net, "")
    ELSE LET data == _handle_response(reply.status, reply.body) IN
         IF data.tag = "raise" THEN data
         ELSE IF kwargs.security_scheme = "oauth2"
         THEN IF "url" \in DOMAIN data.value
              THEN Return(data.value.url)
              ELSE Raise("KeyError", "url")
         ELSE IF {"id", "app_name"} \subseteq DOMAIN data.value
              THEN Return(data.value)
              ELSE Raise("PydanticValidationError", "id: field required")

\* The answers the backend can give to one request of the method of `br`.
RepliesFor(br) ==
    IF br # "link" THEN Replies
    ELSE [net : NetworkFailures, status : {0}, body : {None}]
         \cup { [net |-> None, status |-> s, body |-> b] :
                  s \in {x \in Statuses : IsErrorStatus(x)}, b \in ErrorBodies }
         \cup { [net |-> None, status |-> s, body |-> b] :
                  s \in {x \in Statuses : ~IsErrorStatus(x)}, b \in LinkPayloads }

\* task.py, lines 17-18: the reply an agent gives instead of calling the tool.
GenericPrompt ==
    "Can you please once again share the location, check in date, check out date and number of adults information"

----------------------------------------------------------------------------
(* aci/libs/_compatible_schema.py                                          *)
(*                                                                         *)
(* One behaviour of SchemaSpec is one call of                              *)
(* ensure_llm_compatible_json_schema. A schema is a heap of dict objects:  *)
(* the function changes them in place, and after json_schema.update a node *)
(* shares the "properties" dict of the definition it referred to. A node   *)
(* holds its "type", whether it has an "additionalProperties" key, the     *)
(* definition its "$ref" names, and the dicts under "properties" and       *)
(* "$defs" (0: no such key); a dict of nodes is a sequence of <<key, node>>.*)

\* The depth of the call stack at which Python raises RecursionError.
MaxDepth == 8

Node(type, ref, props, defs) ==
    [type |-> type, ap |-> FALSE, ref |-> ref, props |-> props, defs |-> defs]

\* The run of the function on a schema whose root is node 1.
Run(nodes, containers) ==
    [nodes |-> nodes, containers |-> containers, stack |-> <<>>, out |-> NoOutcome]

\* No schema is being processed.
NoSchema == Run(<<>>, <<>>)

\* The schemas the function is called with: {}; an object with two plain
\* properties; a property that refers to a definition; a definition that
\* refers to another one; a definition with a property that refers to
\* another one; a definition that refers to itself directly; one that refers
\* to itself through a property; two that refer to each other.
Schemas ==
    { Run(<<Node(None, None, 0, 0)>>, <<>>),
      Run(<<Node("object", None, 1, 0), Node("string", None, 0, 0),
            Node("object", None, 0, 0)>>,
          << <<<<"x", 2>>, <<"y", 3>>>> >>),
      Run(<<Node("object", None, 1, 2), Node(None, "A", 0, 0),
            Node("object", None, 3, 0), Node("string", None, 0, 0)>>,
          << <<<<"a", 2>>>>, <<<<"A", 3>>>>, <<<<"x", 4>>>> >>),
      Run(<<Node("object", None, 1, 2), Node(None, "A", 0, 0),
            Node(None, "B", 0, 0), Node("object", None, 0, 0)>>,
          << <<<<"a", 2>>>>, <<<<"A", 3>>, <<"B", 4>>>> >>),
      Run(<<Node("object", None, 1, 2), Node(None, "A", 0, 0),
            Node("object", None, 3, 0), Node("object", None, 0, 0),
            Node(None, "B", 0, 0)>>,
          << <<<<"a", 2>>>>, <<<<"A", 3>>, <<"B", 4>>>>, <<<<"b", 5>>>> >>),
      Run(<<Node(None, "A", 0, 1), Node(None, "A", 0, 0)>>,
          << <<<<"A", 2>>>> >>),
      Run(<<Node("object", None, 1, 2), Node(None, "Node", 0, 0),
            Node("object", None, 3, 0), Node(None, "Node", 0, 0)>>,
          << <<<<"n", 2>>>>, <<<<"Node", 3>>>>, <<<<"next", 4>>>> >>),
      Run(<<Node(None, "A", 0, 1), Node("object", None, 2, 0),
            Node("object", None, 3, 0), Node(None, "B", 0, 0),
            Node(None, "A", 0, 0)>>,
          << <<<<"A", 2>>, <<"B", 3>>>>, <<<<"b", 4>>>>, <<<<"a", 5>>>> >>) }

\* _EMPTY_SCHEMA, lines 42-47
_EMPTY_SCHEMA == [type |-> "object", ap |-> TRUE, ref |-> None, props |-> 0, defs |-> 0]

\* resolve_ref, lines 166-179, for a ref "#/$defs/<name>": root["$defs"][name],
\* KeyError when a key of the path is missing.
resolve_ref(run, name) ==
    LET defs == run.nodes[1].defs IN
    IF defs = 0 THEN Raise("KeyError", "$defs")
    ELSE LET found == {i \in 1..Len(run.containers[defs]) :
                          run.containers[defs][i][1] = name} IN
         IF found = {} THEN Raise("KeyError", name)
         ELSE Return(run.containers[defs][CHOOSE i \in found : TRUE][2])

\* json_schema.update({**resolved, **json_schema}) and json_schema.pop("$ref"),
\* lines 157-158: every key the node lacks is taken from the resolved
\* definition, the value of "properties" being the same dict object.
Expanded(node, resolved) ==
    [type |-> IF node.type # None THEN node.type ELSE resolved.type,
     ap |-> node.ap \/ resolved.ap,
     ref |-> None,
     props |-> IF node.props # 0 THEN node.props ELSE resolved.props,
     defs |-> IF node.defs # 0 THEN node.defs ELSE resolved.defs]

\* A call of _ensure_llm_compatible_json_schema on node n is entered: line 71
\* reads "$defs". Python has a frame for every call, tail calls included.
Enter(run, n) ==
    IF Len(run.stack) >= MaxDepth
    THEN [run EXCEPT !.stack = <<>>,
                     !.out = Raise("RecursionError", "maximum recursion depth exceeded")]
    ELSE [run EXCEPT !.stack = Append(@, [node |-> n, phase |-> "defs",
                                          cont |-> run.nodes[n].defs, idx |-> 1])]

\* The call on top of the stack returns json_schema, line 163.
Leave(run) ==
    LET rest == SubSeq(run.stack, 1, Len(run.stack) - 1) IN
    [run EXCEPT !.stack = rest, !.out = IF rest = <<>> THEN Return(1) ELSE @]

----------------------------------------------------------------------------
(* The dispatch                                                            *)

\* app.py, line 287: the tasks of hierarchical_crew, in the order the crew
\* executes them.
Tasks == <<"hotel", "flight">>

\* task.py, lines 5-42 and 45-86 (app.py, lines 135-216): what a task
\* registers with the crew. Neither Task(...) passes a name; the description
\* of each names the tool its agent is to call, and `tools` holds the tool
\* the task is given.
TaskDescriptor(t) ==
    IF t = "hotel"
    THEN [name |-> None, description_calls |-> "Hotel Search Tool",
          tools |-> {"Hotel Search Tool"}]
    ELSE [name |-> None, description_calls |-> "Hotel Search Tool",
          tools |-> {"Flight Search Tool"}]

\* The module whose copy of the tools the entry point runs.
ModuleOf(e) == IF e = "app" THEN "app" ELSE "tools"

Init ==
    /\ entry \in {"aci", "app", "crew", "link"}
    /\ IF entry = "aci"
       THEN /\ function_name \in FunctionNames
            /\ function_arguments \in ArgVariants
            /\ question = TRUE
            /\ candidate = NoCandidate
            /\ api_key \in {k \in Keys : ACI__init__(None, k).tag = "return"}
       ELSE /\ function_name = None
            /\ function_arguments = <<>>
            /\ question \in (IF entry = "app" THEN BOOLEAN ELSE {TRUE})
            /\ candidate \in (IF question /\ entry # "link" THEN Candidates
                              ELSE {NoCandidate})
            /\ api_key \in (IF entry = "link"
                            THEN {k \in Keys : ACI__init__(None, k).tag = "return"}
                            ELSE Keys)
    /\ link_arguments \in (IF entry = "link" THEN LinkArgVariants ELSE {NoLinkArguments})
    /\ task = None
    /\ missing = <<>>
    /\ pc = "entered"
    /\ branch = None
    /\ rpc = "idle"
    /\ attempt_number = 0
    /\ history = <<>>
    /\ last = NoOutcome
    /\ sleeps = <<>>
    /\ outbound = <<>>
    /\ invoked = <<>>
    /\ call_outcome = NoOutcome
    /\ result = NoOutcome
    /\ ran = <<>>
    /\ http_status = 0
    /\ response = NoReply
    /\ cancelled = FALSE
    /\ thr = <<>>
    /\ crew = <<>>
    /\ overtook = {}
    /\ calls = <<>>
    /\ flight_arguments = NoFlightArguments
    /\ arguments_object = function_arguments
    /\ schema = NoSchema

inputs == <<entry, function_name, question, candidate, api_key, link_arguments>>
retry_vars == <<rpc, attempt_number, history, last, sleeps, call_outcome, response>>
request_vars == <<ran, http_status, cancelled>>
conc_vars == <<thr, crew, overtook, calls>>
library_vars == <<schema>>

\* ACI.handle_function_call, lines 119, 128, 141: the branch is chosen.
AciRoute ==
    /\ entry = "aci" /\ pc = "entered"
    /\ branch' = RouteOf(function_name)
    /\ pc' = "routed"
    /\ UNCHANGED <<inputs, conc_vars, library_vars, flight_arguments, arguments_object, request_vars, function_arguments, task, missing, retry_vars, outbound,
                   invoked, result>>

\* Flask answers a request whose view function raised an exception that no
\* error handler is registered for with status 500.
UnhandledExceptionStatus == 500

\* app.py process(), lines 296-297: a body without "question" raises KeyError,
\* which nothing in app.py catches.
ProcessMalformed ==
    /\ entry = "app" /\ pc = "entered" /\ ~question
    /\ pc' = "raised"
    /\ result' = Raise("KeyError", "question")
    /\ http_status' = UnhandledExceptionStatus
    /\ UNCHANGED <<inputs, conc_vars, library_vars, flight_arguments, arguments_object, ran, cancelled, function_arguments, task, missing, branch,
                   retry_vars, outbound, invoked>>

\* app.py process(), lines 298-301: hierarchical_crew.kickoff starts on the
\* first task of its list. task.py builds no crew: there one of its two tasks
\* is executed by its agent.
Kickoff ==
    /\ entry \in {"app", "crew"} /\ pc = "entered" /\ question
    /\ task' \in (IF entry = "app" THEN {Tasks[1]} ELSE {"hotel", "flight"})
    /\ ran' = <<task'>>
    /\ pc' = "routed"
    /\ UNCHANGED <<inputs, conc_vars, library_vars, flight_arguments, arguments_object, http_status, cancelled, function_arguments, missing, branch,
                   retry_vars, outbound, invoked, result>>

\* hierarchical_crew, lines 285-291: a crew executes every task of its list,
\* one after the other, whatever the output of the one before; an exception
\* of a tool reaches the agent as the tool's output, not the crew.
NextTask ==
    /\ entry = "app" /\ pc \in {"asked", "returned", "raised"}
    /\ ran # <<>> /\ Len(ran) < Len(Tasks)
    /\ task' = Tasks[Len(ran) + 1]
    /\ ran' = Append(ran, task')
    /\ pc' = "routed"
    /\ result' = NoOutcome
    /\ UNCHANGED <<inputs, conc_vars, library_vars, flight_arguments, arguments_object, http_status, cancelled, function_arguments, missing, branch,
                   retry_vars, outbound, invoked>>

\* app.py process(), line 303: the output of the crew, which is the output of
\* its last task, is sent with status 200.
ProcessRespond ==
    /\ entry = "app" /\ pc \in {"asked", "returned", "raised"}
    /\ Len(ran) = Len(Tasks) /\ http_status = 0
    /\ http_status' = 200
    /\ UNCHANGED <<inputs, conc_vars, library_vars, flight_arguments, arguments_object, ran, cancelled, function_arguments, task, missing, pc, branch,
                   retry_vars, outbound, invoked, result>>

\* The chosen branch or agent starts on the arguments.
BeginCheck ==
    /\ pc = "routed"
    /\ pc' = "checking"
    /\ UNCHANGED <<inputs, conc_vars, library_vars, flight_arguments, arguments_object, request_vars, function_arguments, task, missing, branch, retry_vars,
                   outbound, invoked, result>>

\* ACI.handle_function_call has no try / except: an exception raised while
\* the arguments of the resource call are evaluated leaves the function.
Propagate(err) == [pc |-> "raised", result |-> err]

\* ACI.handle_function_call, lines 120-124, 133-138, 145-147: the arguments of
\* the resource call are evaluated and the retry-wrapped method is entered.
AciBind ==
    /\ entry = "aci" /\ pc = "checking"
    /\ LET wrapped == IF branch = "execute"
                      THEN wrap_function_arguments_if_not_present(function_arguments)
                      ELSE Return(function_arguments)
       IN  IF wrapped.tag = "raise"
           THEN /\ pc' = Propagate(wrapped).pc
                /\ result' = Propagate(wrapped).result
                /\ UNCHANGED <<function_arguments, rpc, attempt_number, invoked>>
           ELSE IF DuplicateKeyword(branch, wrapped.value)
           THEN /\ pc' = Propagate(Raise("TypeError", "multiple values for keyword")).pc
                /\ result' = Propagate(Raise("TypeError", "multiple values for keyword")).result
                /\ function_arguments' = wrapped.value
                /\ UNCHANGED <<rpc, attempt_number, invoked>>
           ELSE /\ pc' = "calling"
                /\ function_arguments' = wrapped.value
                /\ invoked' = Append(invoked, IF branch = "search" THEN "functions.search"
                                               ELSE "functions.execute")
                /\ rpc' = "attempt"
                /\ attempt_number' = 1
                /\ UNCHANGED result
    /\ arguments_object' = IF branch = "execute"
                           THEN InputAfterWrap(function_arguments)
                           ELSE arguments_object
    /\ UNCHANGED <<inputs, conc_vars, library_vars, flight_arguments, request_vars, task, missing, branch,
                   history, last, sleeps, call_outcome, response, outbound>>

\* linked_accounts.link is called: the retry-wrapped method is entered.
LinkCall ==
    /\ entry = "link" /\ pc = "entered"
    /\ branch' = "link"
    /\ pc' = "calling"
    /\ invoked' = Append(invoked, "linked_accounts.link")
    /\ rpc' = "attempt"
    /\ attempt_number' = 1
    /\ UNCHANGED <<inputs, conc_vars, library_vars, flight_arguments, arguments_object, request_vars,
                   function_arguments, task, missing, history, last, sleeps,
                   call_outcome, response, outbound, result>>

\* tenacity Retrying.__call__ with retry_config: one attempt of the wrapped
\* method (functions.py, lines 49-66 and 118-138; linked_accounts.py, lines
\* 108-155) and the decision taken on its outcome.
Attempt ==
    /\ entry \in {"aci", "link"} /\ pc = "calling" /\ rpc = "attempt"
    /\ LET kwargs == IF branch = "link" THEN link_arguments
                     ELSE CallKwargs(branch, function_name, function_arguments) IN
       \E reply \in RepliesFor(branch) :
         LET early == PreRequestError(branch, kwargs)
             mismatch == early.tag = "raise"
             outcome == IF mismatch THEN early
                        ELSE IF branch = "link" THEN LinkOutcome(kwargs, reply)
                        ELSE MethodOutcome(branch, reply)
         IN  /\ outbound' = IF mismatch THEN outbound
                            ELSE Append(outbound, IF branch = "link" THEN LinkRequest(kwargs)
                                                  ELSE RequestOf(branch, kwargs))
             /\ last' = outcome
             /\ response' = IF mismatch THEN response ELSE reply
             /\ history' = Append(history,
                                  IF outcome.tag = "return" THEN "ok" ELSE outcome.kind)
             /\ IF outcome.tag = "return"
                THEN rpc' = "returned" /\ call_outcome' = outcome
                ELSE IF ~ShouldRetry(outcome.kind)
                THEN rpc' = "raised" /\ call_outcome' = outcome
                ELSE IF ShouldStop(attempt_number)
                THEN rpc' = "raised" /\ call_outcome' = Reraise(outcome)
                ELSE rpc' = "sleep" /\ call_outcome' = call_outcome
    /\ UNCHANGED <<inputs, conc_vars, library_vars, flight_arguments, arguments_object, request_vars, function_arguments, task, missing, pc, branch,
                   attempt_number, sleeps, invoked, result>>

\* A variant whose backoff sleep never returns.
SleepNeverReturns ==
    /\ entry \in {"aci", "link"} /\ pc = "calling" /\ rpc = "sleep"
    /\ UNCHANGED vars

\* tenacity: prepare_for_next_attempt and the backoff sleep.
Sleep ==
    /\ entry \in {"aci", "link"} /\ pc = "calling" /\ rpc = "sleep"
    /\ sleeps' = Append(sleeps, WaitBefore(attempt_number))
    /\ attempt_number' = attempt_number + 1
    /\ rpc' = "attempt"
    /\ UNCHANGED <<inputs, conc_vars, library_vars, flight_arguments, arguments_object, request_vars, function_arguments, task, missing, pc, branch,
                   history, last, call_outcome, response, outbound, invoked, result>>

\* The caller of a retry-wrapped call gives the call up (its deadline passes,
\* its client disconnects) while the call runs. search and execute take no
\* deadline or cancellation parameter and retry_config names none.
Cancel ==
    /\ entry \in {"aci", "link"} /\ pc = "calling" /\ rpc \in {"attempt", "sleep"}
    /\ ~cancelled
    /\ cancelled' = TRUE
    /\ UNCHANGED <<inputs, conc_vars, library_vars, flight_arguments, arguments_object, ran, http_status, function_arguments, task, missing, pc,
                   branch, retry_vars, outbound, invoked, result>>

\* ACI.handle_function_call, lines 126, 139, 148: the result is returned.
AciReturn ==
    /\ entry = "aci" /\ pc = "calling" /\ rpc = "returned"
    /\ pc' = "returned"
    /\ result' = IF branch = "search" THEN call_outcome
                 ELSE Return(model_dump(call_outcome.value))
    /\ UNCHANGED <<inputs, conc_vars, library_vars, flight_arguments, arguments_object, request_vars, function_arguments, task, missing, branch, retry_vars,
                   outbound, invoked>>

\* ACI.handle_function_call: an exception of the resource call propagates.
AciRaise ==
    /\ entry = "aci" /\ pc = "calling" /\ rpc = "raised"
    /\ pc' = "raised"
    /\ result' = call_outcome
    /\ UNCHANGED <<inputs, conc_vars, library_vars, flight_arguments, arguments_object, request_vars, function_arguments, task, missing, branch, retry_vars,
                   outbound, invoked>>

\* linked_accounts.link has returned or raised: its caller has the outcome.
LinkEnd ==
    /\ entry = "link" /\ pc = "calling" /\ rpc \in {"returned", "raised"}
    /\ pc' = rpc
    /\ result' = call_outcome
    /\ UNCHANGED <<inputs, conc_vars, library_vars, flight_arguments, arguments_object, request_vars,
                   function_arguments, task, missing, branch, retry_vars, outbound,
                   invoked>>

\* task.py, lines 17-18 and 58-59: the agent does not call its tool and asks
\* the user again.
AgentAsks ==
    /\ entry \in {"app", "crew"} /\ pc = "checking"
    /\ pc' = "asked"
    /\ result' = Return(GenericPrompt)
    /\ UNCHANGED <<inputs, conc_vars, library_vars, flight_arguments, arguments_object, request_vars, function_arguments, task, missing, branch, retry_vars,
                   outbound, invoked>>

\* hotel_search_tool, lines 36-46: the tool is called and checks its inputs.
HotelCheck ==
    /\ entry \in {"app", "crew"} /\ pc = "checking" /\ task = "hotel"
    /\ invoked' = Append(invoked, "hotel_search_tool")
    /\ LET checked == hotel_check(missing, candidate) IN
         /\ missing' = checked.missing
         /\ IF checked.outcome.tag = "raise"
            THEN pc' = "raised" /\ result' = checked.outcome
            ELSE IF checked.outcome.tag = "return"
            THEN pc' = "asked" /\ result' = checked.outcome
            ELSE pc' = "calling" /\ result' = result
    /\ UNCHANGED <<inputs, conc_vars, library_vars, flight_arguments, arguments_object, request_vars, function_arguments, task, branch, retry_vars, outbound>>

\* hotel_search_tool, lines 48-65: the search and the list built from it.
HotelSearch ==
    /\ entry \in {"app", "crew"} /\ pc = "calling" /\ task = "hotel"
    /\ IF ~OsImported(ModuleOf(entry))
       THEN /\ result' = Raise("NameError", "name 'os' is not defined")
            /\ outbound' = outbound
       ELSE \E reply \in SearchReplies :
              /\ outbound' = Append(outbound, HotelRequest(candidate, api_key))
              /\ result' = HotelDetails(reply)
    /\ pc' = IF result'.tag = "return" THEN "returned" ELSE "raised"
    /\ UNCHANGED <<inputs, conc_vars, library_vars, flight_arguments, arguments_object, request_vars, function_arguments, task, missing, branch, retry_vars, invoked>>

\* flight_search_tool, line 5: the agent calls the tool with the values it
\* took from the question; the tool checks nothing.
FlightCheck ==
    /\ entry \in {"app", "crew"} /\ pc = "checking" /\ task = "flight"
    /\ pc' = "calling"
    /\ invoked' = Append(invoked, "flight_search_tool")
    /\ flight_arguments' \in FlightArgVariants
    /\ UNCHANGED <<inputs, conc_vars, library_vars, arguments_object, request_vars, function_arguments, task, missing, branch, retry_vars,
                   outbound, result>>

\* flight_search_tool, lines 7-29
FlightSearch ==
    /\ entry \in {"app", "crew"} /\ pc = "calling" /\ task = "flight"
    /\ \E reply \in SearchReplies :
         /\ outbound' = Append(outbound, FlightRequest)
         /\ result' = FlightDetails(reply)
    /\ pc' = IF result'.tag = "return" THEN "returned" ELSE "raised"
    /\ UNCHANGED <<inputs, conc_vars, library_vars, flight_arguments, arguments_object, request_vars, function_arguments, task, missing, branch, retry_vars, invoked>>

Next ==
    \/ AciRoute
    \/ ProcessMalformed
    \/ Kickoff
    \/ NextTask
    \/ ProcessRespond
    \/ BeginCheck
    \/ AciBind
    \/ Attempt
    \/ Sleep
    \/ Cancel
    \/ AciReturn
    \/ AciRaise
    \/ LinkCall
    \/ LinkEnd
    \/ AgentAsks
    \/ HotelCheck
    \/ HotelSearch
    \/ FlightCheck
    \/ FlightSearch

Spec == Init /\ [][Next]_vars

\* Every step of a dispatch is a step of straight-line code or of a call
\* that returns or raises: a dispatch that can take a step takes one.
FairSpec == Spec /\ WF_vars(Next)

----------------------------------------------------------------------------
(* Concurrent dispatches                                                   *)
(*                                                                         *)
(* Two requests served at the same time, each on a thread of its own: a    *)
(* retry-wrapped call on the one ACI client (its resources share the       *)
(* httpx client, _client.py lines 67-73), or POST /process of app.py on    *)
(* the one module-level hierarchical_crew.                                 *)

\* The number of dispatches in flight at the same time.
MaxThreads == 2
Threads == 1..MaxThreads

\* The question of the request thread t serves.
QuestionOf(t) == "question " \o ToString(t)

\* task.py: the description of a task before any kickoff holds the
\* placeholder {user_question}.
Template == "{user_question}"

\* What an attempt of a retry-wrapped call ends with.
AttemptKinds == {"ok", "AuthenticationError", "ServerError", "TimeoutException"}

\* A dispatch that has not started.
NewThread(k, t) ==
    [kind |-> k, question |-> QuestionOf(t),
     pc |-> IF k = "aci" THEN "attempt" ELSE "entered",
     attempt_number |-> IF k = "aci" THEN 1 ELSE 0,
     history |-> <<>>, sleeps |-> <<>>, seen |-> <<>>, outcome |-> None]

\* retry_config names no "sleep": tenacity sleeps with time.sleep on the
\* calling thread, after the attempt has returned and its connection is back
\* in the pool. The shared objects a thread holds during its backoff sleep:
SleepHoldsClient(t) == {"httpx_client"}
HeldWhileSleeping(t) == {}

\* The shared objects held by the threads other than t that sleep.
HeldByOthers(t) ==
    UNION {HeldWhileSleeping(o) : o \in {u \in Threads \ {t} : thr[u].pc = "sleep"}}

\* The threads that sleep their backoff while t takes a step.
Overtaken(t) == {<<o, t>> : o \in {u \in Threads \ {t} : thr[u].pc = "sleep"}}

ConcInit ==
    /\ \E kinds \in [Threads -> {"aci", "app"}] :
           thr = [t \in Threads |-> NewThread(kinds[t], t)]
    /\ crew = [k \in {Tasks[i] : i \in 1..Len(Tasks)} |-> Template]
    /\ overtook = {}
    /\ entry = None /\ function_name = None /\ function_arguments = <<>>
    /\ question = TRUE /\ candidate = NoCandidate /\ api_key = "key"
    /\ task = None /\ missing = <<>> /\ pc = "entered" /\ branch = None
    /\ rpc = "idle" /\ attempt_number = 0 /\ history = <<>> /\ last = NoOutcome
    /\ sleeps = <<>> /\ outbound = <<>> /\ invoked = <<>>
    /\ call_outcome = NoOutcome /\ result = NoOutcome
    /\ ran = <<>> /\ http_status = 0 /\ response = NoReply /\ cancelled = FALSE
    /\ calls = <<>> /\ flight_arguments = NoFlightArguments
    /\ arguments_object = <<>> /\ link_arguments = NoLinkArguments
    /\ schema = NoSchema

dispatch_vars ==
    <<inputs, request_vars, retry_vars, function_arguments, task, missing, pc, branch,
      outbound, invoked, result, calls, flight_arguments, arguments_object,
      library_vars>>

\* tenacity Retrying.__call__ with retry_config on thread t: one attempt of
\* the wrapped method and the decision on its outcome. The retry state
\* (RetryCallState) is created by the call and belongs to it.
ConcAttempt(t) ==
    /\ thr[t].kind = "aci" /\ thr[t].pc = "attempt"
    /\ "httpx_client" \notin HeldByOthers(t)
    /\ \E k \in AttemptKinds :
         LET ends == k = "ok" \/ ~ShouldRetry(k) \/ ShouldStop(thr[t].attempt_number) IN
         thr' = [thr EXCEPT ![t].history = Append(@, k),
                            ![t].pc = IF ends THEN "done" ELSE "sleep",
                            ![t].outcome = IF ends THEN k ELSE @]
    /\ overtook' = overtook \cup Overtaken(t)
    /\ UNCHANGED <<crew, dispatch_vars>>

\* tenacity on thread t: the backoff sleep ends and the next attempt is due.
ConcSleep(t) ==
    /\ thr[t].kind = "aci" /\ thr[t].pc = "sleep"
    /\ thr' = [thr EXCEPT ![t].sleeps = Append(@, WaitBefore(thr[t].attempt_number)),
                          ![t].attempt_number = @ + 1,
                          ![t].pc = "attempt"]
    /\ overtook' = overtook \cup Overtaken(t)
    /\ UNCHANGED <<crew, dispatch_vars>>

\* app.py process(), lines 296-301, on thread t: kickoff(inputs=...) writes
\* the question of this request into the description of every task of the
\* module-level crew.
ConcKickoff(t) ==
    /\ thr[t].kind = "app" /\ thr[t].pc = "entered"
    /\ crew' = [k \in DOMAIN crew |-> thr[t].question]
    /\ thr' = [thr EXCEPT ![t].pc = "running"]
    /\ overtook' = overtook \cup Overtaken(t)
    /\ UNCHANGED dispatch_vars

\* hierarchical_crew on thread t: the next task of the list is executed on
\* the description the task holds now; after the last one process() answers.
ConcExecuteTask(t) ==
    /\ thr[t].kind = "app" /\ thr[t].pc = "running"
    /\ LET seen == Append(thr[t].seen, crew[Tasks[Len(thr[t].seen) + 1]])
           ends == Len(seen) = Len(Tasks)
       IN  thr' = [thr EXCEPT ![t].seen = seen,
                              ![t].pc = IF ends THEN "done" ELSE "running",
                              ![t].outcome = IF ends THEN "answered" ELSE @]
    /\ overtook' = overtook \cup Overtaken(t)
    /\ UNCHANGED <<crew, dispatch_vars>>

\* One step of the dispatch on thread t.
ThreadStep(t) ==
    \/ ConcAttempt(t)
    \/ ConcSleep(t)
    \/ ConcKickoff(t)
    \/ ConcExecuteTask(t)

ConcNext == \E t \in Threads : ThreadStep(t)

ConcSpec == ConcInit /\ [][ConcNext]_vars

----------------------------------------------------------------------------
(* The required-field check, called again and again                        *)
(*                                                                         *)
(* One behaviour of CheckSpec is a series of calls of hotel_search_tool on *)
(* one tuple of arguments, each followed up to its line 46.                *)

\* The number of calls in a series.
MaxCalls == 3

CheckInit ==
    /\ entry = "check"
    /\ candidate \in Candidates
    /\ calls = <<>>
    /\ function_name = None /\ function_arguments = <<>>
    /\ question = TRUE /\ api_key = "key"
    /\ task = None /\ missing = <<>> /\ pc = "entered" /\ branch = None
    /\ rpc = "idle" /\ attempt_number = 0 /\ history = <<>> /\ last = NoOutcome
    /\ sleeps = <<>> /\ outbound = <<>> /\ invoked = <<>>
    /\ call_outcome = NoOutcome /\ result = NoOutcome
    /\ ran = <<>> /\ http_status = 0 /\ response = NoReply /\ cancelled = FALSE
    /\ thr = <<>> /\ crew = <<>> /\ overtook = {}
    /\ flight_arguments = NoFlightArguments /\ arguments_object = <<>>
    /\ link_arguments = NoLinkArguments /\ schema = NoSchema

\* hotel_search_tool, lines 32-46: one call, up to the end of the check. The
\* function assigns to its local `missing` and to nothing else.
CheckCall ==
    /\ entry = "check" /\ Len(calls) < MaxCalls
    /\ LET checked == hotel_check(missing, candidate) IN
         /\ missing' = checked.missing
         /\ calls' = Append(calls, [args |-> candidate, missing |-> checked.missing,
                                    outcome |-> checked.outcome])
    /\ UNCHANGED <<inputs, request_vars, retry_vars, function_arguments, task, pc,
                   branch, outbound, invoked, result, thr, crew, overtook,
                   flight_arguments, arguments_object, library_vars>>

CheckNext == CheckCall

CheckSpec == CheckInit /\ [][CheckNext]_vars

----------------------------------------------------------------------------
(* One call of ensure_llm_compatible_json_schema                           *)

SchemaInit ==
    /\ entry = "schema"
    /\ schema \in Schemas
    /\ function_name = None /\ function_arguments = <<>>
    /\ question = TRUE /\ candidate = NoCandidate /\ api_key = "key"
    /\ task = None /\ missing = <<>> /\ pc = "entered" /\ branch = None
    /\ rpc = "idle" /\ attempt_number = 0 /\ history = <<>> /\ last = NoOutcome
    /\ sleeps = <<>> /\ outbound = <<>> /\ invoked = <<>>
    /\ call_outcome = NoOutcome /\ result = NoOutcome
    /\ ran = <<>> /\ http_status = 0 /\ response = NoReply /\ cancelled = FALSE
    /\ thr = <<>> /\ crew = <<>> /\ overtook = {} /\ calls = <<>>
    /\ flight_arguments = NoFlightArguments /\ arguments_object = <<>>
    /\ link_arguments = NoLinkArguments

Top == schema.stack[Len(schema.stack)]
Running == entry = "schema" /\ pc = "calling" /\ schema.stack # <<>>

\* ensure_llm_compatible_json_schema, lines 56-58
SchemaCall ==
    /\ entry = "schema" /\ pc = "entered"
    /\ pc' = "calling"
    /\ schema' = IF schema.nodes[1] = Node(None, None, 0, 0)
                 THEN [schema EXCEPT !.nodes = <<_EMPTY_SCHEMA>>, !.out = Return(1)]
                 ELSE Enter(schema, 1)
    /\ UNCHANGED <<inputs, conc_vars, flight_arguments, arguments_object, request_vars,
                   retry_vars, function_arguments, task, missing, branch, outbound,
                   invoked, result>>

\* lines 71-76, then 85-91: the loop over "$defs"; after it
\* additionalProperties is set on an object and "properties" is read.
SchemaDefs ==
    /\ Running /\ Top.phase = "defs"
    /\ LET d == Len(schema.stack)
           n == Top.node
       IN  schema' =
             IF Top.cont # 0 /\ Top.idx <= Len(schema.containers[Top.cont])
             THEN Enter([schema EXCEPT !.stack[d].idx = @ + 1],
                        schema.containers[Top.cont][Top.idx][2])
             ELSE [schema EXCEPT
                     !.nodes[n].ap = @ \/ schema.nodes[n].type = "object",
                     !.stack[d] = [node |-> n, phase |-> "props",
                                   cont |-> schema.nodes[n].props, idx |-> 1]]
    /\ UNCHANGED <<inputs, conc_vars, flight_arguments, arguments_object, request_vars,
                   retry_vars, function_arguments, task, missing, pc, branch, outbound,
                   invoked, result>>

\* lines 92-101: the loop over "properties"; the dict assigned at line 96
\* holds the same keys, bound to the objects the calls returned, which are
\* the objects it held before. Then "$ref" is read, line 144.
SchemaProps ==
    /\ Running /\ Top.phase = "props"
    /\ LET d == Len(schema.stack) IN
       schema' =
         IF Top.cont # 0 /\ Top.idx <= Len(schema.containers[Top.cont])
         THEN Enter([schema EXCEPT !.stack[d].idx = @ + 1],
                    schema.containers[Top.cont][Top.idx][2])
         ELSE [schema EXCEPT !.stack[d].phase = "ref"]
    /\ UNCHANGED <<inputs, conc_vars, flight_arguments, arguments_object, request_vars,
                   retry_vars, function_arguments, task, missing, pc, branch, outbound,
                   invoked, result>>

\* lines 144-163: without "$ref" the node is returned; with it the node is
\* expanded from the definition and the function calls itself on the node.
SchemaRef ==
    /\ Running /\ Top.phase = "ref"
    /\ LET d == Len(schema.stack)
           n == Top.node
           ref == schema.nodes[n].ref
       IN  schema' =
             IF ref = None THEN Leave(schema)
             ELSE LET resolved == resolve_ref(schema, ref) IN
                  IF resolved.tag = "raise"
                  THEN [schema EXCEPT !.stack = <<>>, !.out = resolved]
                  ELSE Enter([schema EXCEPT
                                !.nodes[n] = Expanded(@, schema.nodes[resolved.value]),
                                !.stack[d].phase = "tail"], n)
    /\ UNCHANGED <<inputs, conc_vars, flight_arguments, arguments_object, request_vars,
                   retry_vars, function_arguments, task, missing, pc, branch, outbound,
                   invoked, result>>

\* line 161: the call the function made on the expanded node has returned,
\* and its value is returned.
SchemaReturn ==
    /\ Running /\ Top.phase = "tail"
    /\ schema' = Leave(schema)
    /\ UNCHANGED <<inputs, conc_vars, flight_arguments, arguments_object, request_vars,
                   retry_vars, function_arguments, task, missing, pc, branch, outbound,
                   invoked, result>>

SchemaNext ==
    \/ SchemaCall
    \/ SchemaDefs
    \/ SchemaProps
    \/ SchemaRef
    \/ SchemaReturn

SchemaSpec == SchemaInit /\ [][SchemaNext]_vars

----------------------------------------------------------------------------
(* Properties                                                              *)

\* The classification of error kinds the specification states (section 4.4).
PermanentKinds ==
    {"AuthenticationError", "PermissionError", "NotFoundError", "ValidationError"}
RetryableKinds ==
    {"ServerError", "RateLimitError", "UnknownError", "TimeoutException",
     "NetworkError"}

\* The first k attempts each raised a retryable kind.
RetryablePrefix(k) == \A i \in 1..k : history[i] \in RetryableKinds

\* C1: a retry-wrapped call whose attempt raises a permanent error kind makes
\* exactly one attempt and one request, sleeps no backoff wait, and the caller
\* of the dispatch gets that very error.
C1_PermanentErrorOneAttempt ==
    (history # <<>> /\ history[1] \in PermanentKinds) =>
        /\ Len(history) = 1
        /\ attempt_number = 1
        /\ Len(outbound) = 1
        /\ sleeps = <<>>
        /\ rpc = "raised"
        /\ call_outcome = last
        /\ last.tag = "raise" /\ last.kind = history[1]
        /\ pc \in {"calling", "raised"}
        /\ pc = "raised" => result = last

C1_Witness ==
    /\ pc = "raised"
    /\ history = <<"AuthenticationError">>
    /\ result.tag = "raise" /\ result.kind = "AuthenticationError"
    /\ invoked = <<"functions.execute">>

\* C2: a retry-wrapped call that raised a retryable kind on its first k
\* attempts, k < max_attempts, goes on to attempt k+1; when that attempt
\* succeeds the call has made exactly k+1 attempts and returns the value of
\* the successful attempt.
C2_RetryThenSuccess ==
    /\ (RetryablePrefix(Len(history)) /\ Len(history) < DEFAULT_MAX_RETRIES
        /\ rpc # "idle") =>
            /\ rpc \in {"sleep", "attempt"}
            /\ call_outcome = NoOutcome
    /\ (history # <<>> /\ history[Len(history)] = "ok") =>
            /\ RetryablePrefix(Len(history) - 1)
            /\ Len(history) <= DEFAULT_MAX_RETRIES
            /\ attempt_number = Len(history)
            /\ Len(outbound) = Len(history)
            /\ Len(sleeps) = Len(history) - 1
            /\ rpc = "returned"
            /\ call_outcome = last /\ last.tag = "return"
            /\ pc = "returned" => result.tag = "return"

C2_Witness ==
    /\ pc = "returned"
    /\ history = <<"RateLimitError", "RateLimitError", "ok">>
    /\ attempt_number = 3
    /\ result.tag = "return"

\* C3: a retry-wrapped call whose every attempt raises a retryable kind never
\* makes more than max_attempts attempts, ends after exactly max_attempts, and
\* raises the error of the last attempt itself: same kind, same message.
C3_ExhaustionReraisesLast ==
    /\ Len(history) <= DEFAULT_MAX_RETRIES
    /\ attempt_number <= DEFAULT_MAX_RETRIES
    /\ (rpc = "raised" /\ RetryablePrefix(Len(history))) =>
            /\ Len(history) = DEFAULT_MAX_RETRIES
            /\ attempt_number = DEFAULT_MAX_RETRIES
            /\ Len(sleeps) = DEFAULT_MAX_RETRIES - 1
            /\ last.tag = "raise" /\ last.kind = history[Len(history)]
            /\ call_outcome = last
            /\ pc = "raised" => result = last

C3_Witness ==
    /\ pc = "raised"
    /\ history = <<"ServerError", "TimeoutException", "RateLimitError">>
    /\ result = Raise("RateLimitError", "b2")

\* The value set the specification (section 4.1) calls present: non-null and
\* non-empty.
Present(v) == v \notin {"None", "EmptyStr", "EmptyList"}
IsString(v) == v \in {"EmptyStr", "Str0", "Berlin"}
RequiredMinusPresent(c) == SelectSeq(Required, LAMBDA f : ~Present(c[f]))
HotelToolCalled == \E i \in 1..Len(invoked) : invoked[i] = "hotel_search_tool"
NoDuplicates(q) == \A i, j \in 1..Len(q) : q[i] = q[j] => i = j

\* C4: whenever the hotel tool's check runs on inputs of which at least one
\* required field is missing, the list it reports is exactly required minus
\* present, without duplicates, in the order query, check_in_date,
\* check_out_date, adults.
C4_MissingIsRequiredMinusPresent ==
    (HotelToolCalled /\ RequiredMinusPresent(candidate) # <<>>) =>
        /\ missing = RequiredMinusPresent(candidate)
        /\ NoDuplicates(missing)
        /\ result = Return(MissingMessage(RequiredMinusPresent(candidate)))

\* C5: the hotel tool called with all four fields present (non-empty strings,
\* as its signature declares) never answers with a missing-information
\* message, issues its search exactly once, and unless the search itself
\* fails returns the list of hotel records.
C5_CompleteRequestSearchesOnce ==
    (HotelToolCalled /\ \A f \in DOMAIN candidate :
                            IsString(candidate[f]) /\ Present(candidate[f])) =>
        /\ pc # "asked"
        /\ pc \in {"returned", "raised"} =>
              /\ Len(outbound) = 1
              /\ result.tag = "raise" => result.kind \in {"ConnectionError", "KeyError"}

C7_PresentIffNonNullNonEmpty ==
    HotelToolCalled =>
        \A i \in 1..Len(Required) :
            (\E j \in 1..Len(missing) : missing[j] = Required[i])
                <=> ~Present(candidate[Required[i]])

\* The states of the specification's dispatcher (section 4.3), read off the
\* control position of the dispatch.
StateOf(p) ==
    CASE p = "entered" -> "RECEIVED"
      [] p = "routed" -> "CLASSIFIED"
      [] p = "checking" -> "VALIDATING"
      [] p = "calling" -> "DELEGATED"
      [] p = "asked" -> "CLARIFYING"
      [] p = "returned" -> "COMPLETED"
      [] p = "raised" -> "FAILED"

ClaimedEdges ==
    { <<"RECEIVED", "CLASSIFIED">>, <<"RECEIVED", "FAILED">>,
      <<"CLASSIFIED", "VALIDATING">>, <<"VALIDATING", "DELEGATED">>,
      <<"VALIDATING", "CLARIFYING">>, <<"DELEGATED", "COMPLETED">>,
      <<"DELEGATED", "FAILED">> }

\* A step moves along one of `edges`, and a handler works (an outbound request
\* is issued, an attempt of a retry-wrapped call is made) only in DELEGATED.
MovesAlong(edges) ==
    /\ StateOf(pc') # StateOf(pc) => <<StateOf(pc), StateOf(pc')>> \in edges
    /\ (outbound' # outbound \/ history' # history) => StateOf(pc) = "DELEGATED"

\* C8: every dispatch starts in RECEIVED and moves only along the seven
\* claimed transitions; COMPLETED, FAILED and CLARIFYING are terminal, and a
\* handler works only in DELEGATED.
C8_OnlyClaimedTransitions ==
    StateOf(pc) = "RECEIVED" /\ [][MovesAlong(ClaimedEdges)]_vars

Terminal == pc \in {"returned", "raised", "asked"}

\* C9: every dispatch eventually reaches one terminal state and stays in it;
\* a retry-wrapped call that has raised, after a non-retryable error or after
\* the bounded number of retryable ones, ends the dispatch in FAILED.
C9_EveryDispatchTerminates ==
    /\ \/ <>[](StateOf(pc) = "COMPLETED")
       \/ <>[](StateOf(pc) = "FAILED")
       \/ <>[](StateOf(pc) = "CLARIFYING")
    /\ [](rpc = "raised" => <>[](StateOf(pc) = "FAILED"))
    /\ []((RetryablePrefix(Len(history)) /\ history # <<>>)
            => <>(StateOf(pc) \in {"COMPLETED", "FAILED"}
                  /\ Len(history) <= DEFAULT_MAX_RETRIES))

C9_Witness ==
    /\ StateOf(pc) = "FAILED"
    /\ Len(history) = DEFAULT_MAX_RETRIES
    /\ RetryablePrefix(Len(history))
    /\ result = last

MetaFunctionNames == {ACI_SEARCH_FUNCTIONS, ACI_EXECUTE_FUNCTION}

\* C10 as claimed: a call of handle_function_call with a function name that is
\* neither meta function goes from RECEIVED directly to FAILED with kind
\* UnroutableRequest; no handler is invoked and no outbound call is made.
C10_UnknownNameIsUnroutable ==
    (entry = "aci" /\ function_name \notin MetaFunctionNames) =>
        /\ StateOf(pc) \in {"RECEIVED", "FAILED"}
        /\ StateOf(pc) = "FAILED" => result.kind = "UnroutableRequest"
        /\ invoked = <<>> /\ outbound = <<>>

\* C10 as amended: a function name that is neither meta function is never
\* rejected: it is routed to the direct branch, functions.execute is the one
\* handler invoked, every attempt issues one execute request for that very
\* name with the caller's arguments as input, and the dispatch fails only
\* with the error that call raised.
C10_UnknownNameIsExecutedDirectly ==
    (entry = "aci" /\ function_name \notin MetaFunctionNames) =>
        /\ pc # "entered" => branch = "direct"
        /\ pc \in {"calling", "returned", "raised"} => invoked = <<"functions.execute">>
        /\ Len(outbound) = Len(history)
        /\ \A i \in 1..Len(outbound) :
              /\ outbound[i].op = "execute"
              /\ outbound[i].function_name = function_name
              /\ outbound[i].function_input = function_arguments
        /\ pc = "raised" => (history # <<>> /\ result = call_outcome
                             /\ result.kind # "UnroutableRequest")

C10_Witness ==
    /\ entry = "aci" /\ function_name = "BRAVE_SEARCH__WEB_SEARCH"
    /\ pc = "returned"
    /\ Len(outbound) = 1 /\ outbound[1].function_name = "BRAVE_SEARCH__WEB_SEARCH"
    /\ result.tag = "return"

\* C11: in every dispatch at most one handler is invoked: one call of
\* handle_function_call runs exactly one of functions.search and
\* functions.execute, and one request to the crew runs at most one of the
\* hotel task and the flight task and calls at most one of the two tools.
C11_AtMostOneHandler ==
    /\ Len(invoked) <= 1
    /\ Len(ran) <= 1
    /\ (entry = "aci" /\ pc \in {"calling", "returned"}) => Len(invoked) = 1

\* C12: the response of POST /process has status 200 when the dispatch ended
\* in success or in a clarification, a 4xx status when the body lacks the
\* "question" field, and a 5xx status only for a failed dispatch of a
\* well-formed request.
C12_StatusFollowsOutcome ==
    (entry = "app" /\ http_status # 0) =>
        /\ (question /\ StateOf(pc) \in {"COMPLETED", "CLARIFYING"}) => http_status = 200
        /\ ~question => http_status \in 400..499
        /\ http_status \in 500..599 => (question /\ StateOf(pc) = "FAILED")

\* C13: every clarification outcome names the missing fields in its message
\* and carries, next to the message, the list of the missing field names; none
\* is the generic prompt.
C13_ClarificationListsMissingFields ==
    pc = "asked" =>
        /\ result.value # GenericPrompt
        /\ missing # <<>> /\ result.value = MissingMessage(missing)
        /\ "missing_fields" \in DOMAIN result

\* C14: the message of an error that handle_function_call raises for an error
\* response of the backend depends on the status only: any other body with
\* the same status gives the same message, and the body is not the message.
C14_FailureMessageByKindOnly ==
    (entry = "aci" /\ pc = "raised" /\ history # <<>>
     /\ response.net = None /\ IsErrorStatus(response.status)) =>
        /\ \A b \in ErrorBodies : _handle_response(response.status, b).msg = result.msg
        /\ result.msg # response.body

\* C15: once the caller has given a retry-wrapped call up, the call starts no
\* further attempt and enters no further backoff sleep.
C15_CancelledCallStops ==
    [][cancelled => (history' = history /\ sleeps' = sleeps)]_vars

\* The dispatch on thread t, run alone, ends as it has ended here: a retried
\* call went through its own attempts only (all but the last retryable, one
\* sleep between two attempts, the last attempt's kind as outcome), and a
\* request to the crew had each task executed on its own question.
EndsAsAlone(t) ==
    IF thr[t].kind = "aci"
    THEN LET h == thr[t].history IN
         /\ thr[t].attempt_number = Len(h)
         /\ Len(h) <= DEFAULT_MAX_RETRIES
         /\ \A i \in 1..(Len(h) - 1) : h[i] \in RetryableKinds
         /\ h[Len(h)] \in RetryableKinds => Len(h) = DEFAULT_MAX_RETRIES
         /\ thr[t].sleeps = [i \in 1..(Len(h) - 1) |-> WaitBefore(i)]
         /\ thr[t].outcome = h[Len(h)]
    ELSE thr[t].seen = [i \in 1..Len(Tasks) |-> thr[t].question]

\* C16: under every interleaving of two concurrent dispatches each dispatch
\* ends with the outcome and the attempt count it has when run alone.
C16_DispatchesIndependent ==
    \A t \in Threads : thr[t].pc = "done" => EndsAsAlone(t)

C18_NoRequestWithAbsentKey ==
    /\ entry = "aci" => api_key # None
    /\ \A i \in 1..Len(outbound) :
           "api_key" \in DOMAIN outbound[i] => outbound[i].api_key # None

\* The error kind the claim gives for an error status.
ClaimedKind(status) ==
    CASE status = 401 -> "AuthenticationError"
      [] status = 403 -> "PermissionError"
      [] status = 404 -> "NotFoundError"
      [] status = 400 -> "ValidationError"
      [] status = 429 -> "RateLimitError"
      [] status \in 500..599 -> "ServerError"
      [] OTHER -> "UnknownError"

\* The statuses the claim has retried: 429, 5xx and every 4xx it does not list.
ClaimedRetried(status) == status \notin {400, 401, 403, 404}

\* C19: _handle_response gives every response exactly one outcome: the parsed
\* body for a successful status, and for an error status one error of the kind
\* 401 AuthenticationError, 403 PermissionError, 404 NotFoundError, 400
\* ValidationError, 429 RateLimitError, 5xx ServerError, else UnknownError;
\* the call is retried after 429, 5xx and the unlisted 4xx, and after no other
\* status.
C19_StatusToErrorKind ==
    /\ (entry = "aci" /\ pc = "entered") =>
           /\ \A s \in 400..599 : \A b \in ErrorBodies :
                  /\ _handle_response(s, b).tag = "raise"
                  /\ _handle_response(s, b).kind = ClaimedKind(s)
                  /\ ShouldRetry(_handle_response(s, b).kind) <=> ClaimedRetried(s)
           /\ \A s \in 200..299 : \A b \in Payloads : _handle_response(s, b) = Return(b)
    /\ (response # NoReply /\ response.net = None) =>
           IF IsErrorStatus(response.status)
           THEN /\ last.tag = "raise" /\ last.kind = ClaimedKind(response.status)
                /\ IF ClaimedRetried(response.status)
                   THEN rpc \in {"sleep", "attempt"} \/ Len(history) = DEFAULT_MAX_RETRIES
                   ELSE rpc = "raised" /\ call_outcome = last
           ELSE branch = "search" => last = Return(response.body)

C19_Witness ==
    /\ response.status = 418 /\ last.kind = "UnknownError"
    /\ rpc = "sleep" /\ Len(history) = 2

\* The attempt numbers the wait schedule is checked for.
MaxWaitIndex == 8

\* The wait the claim gives after attempt n: multiplier * 2^(n-1), clamped to
\* the interval from min_wait to max_wait.
ClaimedWait(n) ==
    Max(DEFAULT_RETRY_MIN_WAIT,
        Min(DEFAULT_RETRY_MULTIPLIER * Pow2(n - 1), DEFAULT_RETRY_MAX_WAIT))

\* C20: the wait before attempt n+1 is multiplier * 2^(n-1) clamped to
\* [min_wait, max_wait]: every wait lies in that interval, the waits do not
\* decrease with n, and a call waits exactly once after each failed retryable
\* attempt that another attempt follows, never after its last attempt.
C20_WaitSchedule ==
    /\ (entry = "aci" /\ pc = "entered") =>
           \A n \in 1..MaxWaitIndex :
               /\ WaitBefore(n) = ClaimedWait(n)
               /\ DEFAULT_RETRY_MIN_WAIT <= WaitBefore(n)
               /\ WaitBefore(n) <= DEFAULT_RETRY_MAX_WAIT
               /\ WaitBefore(n) <= WaitBefore(n + 1)
    /\ \A i \in 1..Len(sleeps) :
           /\ sleeps[i] = ClaimedWait(i)
           /\ history[i] \in RetryableKinds
    /\ rpc = "sleep" => Len(sleeps) = Len(history) - 1
    /\ rpc = "attempt" => Len(sleeps) = Len(history)
    /\ rpc \in {"returned", "raised"} => Len(sleeps) = Len(history) - 1
    /\ rpc = "idle" => sleeps = <<>>

C20_Witness ==
    /\ rpc = "raised" /\ Len(history) = DEFAULT_MAX_RETRIES
    /\ sleeps = <<1, 2>>

\* C21: the required-field check never raises: for every tuple of arguments,
\* also one with absent, null or empty fields, each call gives back a result
\* and not an exception.
C21_CheckNeverRaises ==
    \A i \in 1..Len(calls) : calls[i].outcome.tag # "raise"

\* C22: the required-field check is a pure, deterministic function: every call
\* on the same arguments gives what the first call gave, the arguments are
\* what they were, and no state outside the call has changed.
C22_CheckIsPure ==
    /\ \A i \in 1..Len(calls) :
           /\ calls[i].outcome = calls[1].outcome
           /\ calls[i].missing = calls[1].missing
           /\ calls[i].args = candidate
    /\ outbound = <<>> /\ invoked = <<>> /\ history = <<>> /\ sleeps = <<>>
    /\ result = NoOutcome /\ pc = "entered"

C22_Witness ==
    /\ Len(calls) >= 2
    /\ candidate.query = "EmptyStr" /\ candidate.check_in_date = "Berlin"
    /\ candidate.check_out_date = "Str0" /\ candidate.adults = "None"
    /\ calls[2].outcome = Return("Missing information: query, adults")
    /\ calls[2].missing = <<"query", "adults">>

\* C23: every outcome a dispatch returns has exactly one of the tags Success,
\* NeedsClarification, Failure: an execution result handed back by
\* handle_function_call has an error exactly when its success is false, and a
\* missing-information result is not handed back as a success payload.
C23_ExactlyOneTag ==
    /\ (entry = "aci" /\ branch \in {"execute", "direct"} /\ pc = "returned") =>
           (result.value.success <=> "error" \notin DOMAIN result.value)
    /\ (task = "hotel" /\ HotelToolCalled /\ missing # <<>>) => StateOf(pc) # "COMPLETED"

\* C24: on success the payload of the handler reaches the caller unchanged:
\* what handle_function_call returns is the document the backend answered
\* with, and a payload a tool has returned stays the outcome of the request.
C24_PayloadUnchanged ==
    /\ []((entry = "aci" /\ pc = "returned") => result.value = response.body)
    /\ [][(entry = "app" /\ pc = "returned") => result' = result]_vars

\* C25: the flight handler issues its search with exactly the departure_id,
\* arrival_id, outbound_date and return_date it was called with, so that calls
\* with different values issue different requests, and unless the search
\* itself fails it returns the list of flight records.
C25_FlightSearchUsesArguments ==
    /\ \A i \in 1..Len(outbound) :
           outbound[i].op = "google_flights" =>
               \A f \in DOMAIN flight_arguments : outbound[i][f] = flight_arguments[f]
    /\ (task = "flight" /\ pc = "raised") => result.kind = "ConnectionError"

\* C26: a crew that runs holds no two capabilities registered under the same
\* name and no two capabilities bound to the same handler: such a
\* registration was rejected when the crew was built.
C26_NoAmbiguousRegistration ==
    (entry = "app" /\ ran # <<>>) =>
        \A i, j \in 1..Len(Tasks) :
            i # j =>
                /\ TaskDescriptor(Tasks[i]).name # None =>
                       TaskDescriptor(Tasks[i]).name # TaskDescriptor(Tasks[j]).name
                /\ TaskDescriptor(Tasks[i]).description_calls
                       # TaskDescriptor(Tasks[j]).description_calls

\* The keys of function_arguments that name a value the developer passes.
DeveloperKeys(br) ==
    IF br = "search" THEN {"allowed_apps_only", "format"}
    ELSE {"linked_account_owner_id"}

\* C27: the linked_account_owner_id of every execute request and the
\* allowed_apps_only and format of every search request are the ones the
\* caller of handle_function_call passed; function_arguments that set one of
\* them at top level end the call in an error before any resource method is
\* entered, with no outbound request; and in the ACI_EXECUTE_FUNCTION branch
\* without a function_arguments key such a key is forwarded inside the input
\* of the target function only.
C27_DeveloperValuesNotOverridable ==
    entry = "aci" =>
        /\ \A i \in 1..Len(outbound) :
               IF outbound[i].op = "execute"
               THEN outbound[i].linked_account_owner_id = linked_account_owner_id
               ELSE /\ outbound[i].params.allowed_apps_only = ToString(allowed_apps_only)
                    /\ outbound[i].params.format = format
        /\ (branch \in {"search", "execute"}
            /\ pc \notin {"entered", "routed", "checking"}
            /\ DOMAIN function_arguments \cap DeveloperKeys(branch) # {}) =>
               /\ pc = "raised" /\ result.tag = "raise" /\ result.kind = "TypeError"
               /\ outbound = <<>> /\ history = <<>> /\ invoked = <<>>
        /\ (branch = "execute" /\ pc \notin {"entered", "routed", "checking"}
            /\ "function_arguments" \notin DOMAIN arguments_object
            /\ "function_name" \in DOMAIN arguments_object) =>
               /\ function_arguments.function_arguments =
                      [k \in DOMAIN arguments_object \ {"function_name"} |->
                           arguments_object[k]]
               /\ \A i \in 1..Len(outbound) :
                      outbound[i].function_input = function_arguments.function_arguments

C27_Witness ==
    /\ entry = "aci" /\ branch = "execute" /\ pc = "returned"
    /\ arguments_object =
           [function_name |-> "GITHUB__STAR", linked_account_owner_id |-> "evil"]
    /\ Len(outbound) = 1
    /\ outbound[1].function_input = [linked_account_owner_id |-> "evil"]
    /\ outbound[1].linked_account_owner_id = "owner1"

\* C28: wrap_function_arguments_if_not_present returns an input that has a
\* function_arguments key unchanged; for an input with function_name and no
\* function_arguments it returns a mapping with exactly the keys function_name
\* and function_arguments, the latter holding every other key of the input;
\* for an input with neither key it raises ValueError; it never modifies its
\* input, and applied to its own result it returns that result.
C28_WrapFunctionArguments ==
    /\ (entry = "aci" /\ pc = "entered") =>
           \A obj \in ArgVariants :
               LET wrapped == wrap_function_arguments_if_not_present(obj) IN
               /\ "function_arguments" \in DOMAIN obj => wrapped = Return(obj)
               /\ ("function_arguments" \notin DOMAIN obj /\ "function_name" \in DOMAIN obj) =>
                      /\ wrapped.tag = "return"
                      /\ DOMAIN wrapped.value = {"function_name", "function_arguments"}
                      /\ wrapped.value.function_name = obj.function_name
                      /\ wrapped.value.function_arguments =
                             [k \in DOMAIN obj \ {"function_name"} |-> obj[k]]
               /\ DOMAIN obj \cap {"function_name", "function_arguments"} = {} =>
                      wrapped = Raise("ValueError", "function_name is required")
               /\ wrapped.tag = "return" =>
                      wrap_function_arguments_if_not_present(wrapped.value) = wrapped
               /\ InputAfterWrap(obj) = obj
    /\ (entry = "aci" /\ branch = "execute" /\ pc \in {"calling", "returned"}) =>
           /\ wrap_function_arguments_if_not_present(arguments_object)
                  = Return(function_arguments)
           /\ wrap_function_arguments_if_not_present(function_arguments)
                  = Return(function_arguments)

C28_Witness ==
    /\ entry = "aci" /\ branch = "execute" /\ pc = "calling"
    /\ arguments_object = [function_name |-> "GITHUB__STAR", q |-> "x"]
    /\ function_arguments =
           [function_name |-> "GITHUB__STAR", function_arguments |-> [q |-> "x"]]

\* Does the retry-wrapped call of this dispatch raise before it sends a
\* request: link for API_KEY without an api_key, execute with
\* function_arguments that are no dict.
RaisesBeforeRequest ==
    \/ /\ entry = "link"
       /\ link_arguments.security_scheme = "api_key"
       /\ link_arguments.api_key \in {"None", "EmptyStr"}
    \/ /\ entry = "aci" /\ branch = "execute"
       /\ "function_arguments" \in DOMAIN function_arguments
       /\ DOMAIN function_arguments.function_arguments = {"json_string"}

\* C29: an error raised inside a retry-wrapped call before any request is
\* sent ends the call after one attempt, with no outbound request and no
\* backoff wait, and reaches the caller as it was raised; link issues exactly
\* one request per attempt, returns the linked account for API_KEY and NO_AUTH
\* and the authorization URL for OAUTH2.
C29_PreRequestErrorEndsCall ==
    /\ (RaisesBeforeRequest /\ rpc # "idle") =>
           /\ outbound = <<>> /\ sleeps = <<>>
           /\ attempt_number = 1 /\ Len(history) <= 1
           /\ rpc \in {"attempt", "raised"}
           /\ rpc = "raised" =>
                  /\ history = <<IF entry = "link" THEN "ValueError"
                                 ELSE "PydanticValidationError">>
                  /\ call_outcome = last /\ last.tag = "raise"
                  /\ last.kind = history[1]
           /\ pc = "raised" => result = last
           /\ pc # "returned"
    /\ (entry = "link" /\ ~RaisesBeforeRequest) =>
           /\ Len(outbound) = Len(history)
           /\ \A i \in 1..Len(outbound) :
                  outbound[i].op =
                      CASE link_arguments.security_scheme = "api_key" ->
                               "POST linked-accounts/api-key"
                        [] link_arguments.security_scheme = "no_auth" ->
                               "POST linked-accounts/no-auth"
                        [] link_arguments.security_scheme = "oauth2" ->
                               "GET linked-accounts/oauth2"
           /\ pc = "returned" =>
                  IF link_arguments.security_scheme = "oauth2"
                  THEN result = Return(response.body.url)
                  ELSE /\ result = Return(response.body)
                       /\ "id" \in DOMAIN result.value

C29_Witness ==
    /\ entry = "link" /\ pc = "raised"
    /\ link_arguments = [security_scheme |-> "api_key", api_key |-> "EmptyStr"]
    /\ history = <<"ValueError">>
    /\ outbound = <<>> /\ sleeps = <<>>

\* C30: ensure_llm_compatible_json_schema terminates on every finite schema,
\* also one whose $ref entries form a cycle, and the schema it returns has no
\* $ref at any level and an additionalProperties key on every node of type
\* object.
C30_SchemaCallTerminatesClean ==
    (entry = "schema" /\ schema.out # NoOutcome) =>
        /\ schema.out.tag = "return"
        /\ \A n \in 1..Len(schema.nodes) :
               /\ schema.nodes[n].ref = None
               /\ schema.nodes[n].type = "object" => schema.nodes[n].ap

====
